---- MODULE Spec2Model ----
(***************************************************************************)
(* Bin packing of service replicas onto servers.                           *)
(*   script.py  : first_fit_decreasing, driven by main                     *)
(*   script1.py : ffd (First-Fit Decreasing under a dimension ordering)    *)
(*                and best_plan (search over 1 + 100 dimension orderings)  *)
(* Resource amounts are integers here; the quotients the code forms        *)
(* (x[r] / caps[r], demand[k] / caps[k]) are compared as exact rationals,  *)
(* which is what IEEE division gives on the small integers of the model.   *)
(***************************************************************************)
EXTENDS Integers, Sequences, FiniteSets, TLC

VARIABLES mode, instances, caps, crit_order, instances_sorted, pos, servers,
          pc, err, refed, prev_sizes, orders, i, best, appended, prev_len

vars == <<mode, instances, caps, crit_order, instances_sorted, pos, servers,
          pc, err, refed, prev_sizes, orders, i, best, appended, prev_len>>

----------------------------------------------------------------------------
(* Data shapes *)

RESOURCE_KEYS == <<"CPU", "Memoria", "Red", "Disco_IO", "Almacenamiento">>

Keys == {RESOURCE_KEYS[n] : n \in 1..Len(RESOURCE_KEYS)}

\* one entry of the list load_instances builds
Inst(svc, cpu, mem, red, dio, alm) ==
  [Servicio |-> svc, CPU |-> cpu, Memoria |-> mem, Red |-> red,
   Disco_IO |-> dio, Almacenamiento |-> alm]

\* the caps dict main builds from the command line
Caps(cpu, mem, red, dio, alm) ==
  [CPU |-> cpu, Memoria |-> mem, Red |-> red, Disco_IO |-> dio,
   Almacenamiento |-> alm]

Range(s) == {s[n] : n \in 1..Len(s)}

----------------------------------------------------------------------------
(* Bounds and input sets *)

MaxReplicas == 3

ReplicaPool ==
  { Inst("a", 1, 2, 0, 0, 0),
    Inst("b", 1, 2, 0, 0, 0),
    Inst("a", 2, 1, 1, 0, 1),
    Inst("c", 0, 1, 2, 1, 0),
    Inst("b", 3, 0, 0, 0, 0),
    Inst("c", 1, 1, 1, 1, 1) }

CapsPool ==
  { Caps(3, 3, 3, 3, 3),
    Caps(2, 3, 3, 3, 3),
    Caps(2, 4, 100, 50, 200),
    Caps(0, 3, 3, 3, 3),
    Caps(-1, 3, 3, 3, 3) }

\* dimension orderings handed to ffd directly
OrderPool ==
  { <<"CPU", "Memoria", "Red", "Disco_IO", "Almacenamiento">>,
    <<"Memoria", "Red", "CPU", "Almacenamiento", "Disco_IO">>,
    <<"Almacenamiento", "Disco_IO", "Red", "Memoria", "CPU">> }

\* replica lists handed to best_plan (every prefix of each is an input too)
Workloads ==
  { \* two services that share one server / two replicas of one service
    << Inst("svcA", 1, 2, 50, 10, 50), Inst("svcB", 1, 2, 50, 10, 50),
       Inst("svcA", 1, 2, 50, 10, 50), Inst("svcC", 3, 1, 10, 10, 10) >>,
    << Inst("c", 0, 1, 0, 0, 0), Inst("a", 0, 2, 0, 0, 0),
       Inst("c", 2, 0, 0, 0, 0), Inst("d", 2, 1, 0, 0, 0),
       Inst("b", 1, 1, 0, 0, 0) >>,
    << Inst("d", 0, 1, 2, 0, 0), Inst("b", 0, 2, 0, 0, 0),
       Inst("b", 0, 0, 2, 0, 0), Inst("c", 1, 1, 1, 0, 0) >>,
    << Inst("a", 2, 1, 2, 0, 0), Inst("b", 0, 2, 0, 0, 1),
       Inst("a", 2, 0, 1, 2, 0), Inst("b", 1, 1, 1, 2, 2) >> }

\* replicas a caller adds to a list before calling best_plan again
AppendPool ==
  { Inst("b", 1, 1, 0, 0, 0),
    Inst("svcB", 1, 2, 50, 10, 50) }

RECURSIVE SeqsUpTo(_, _)
SeqsUpTo(S, n) ==
  IF n = 0 THEN {<<>>}
  ELSE LET shorter == SeqsUpTo(S, n - 1)
       IN  shorter \cup {Append(q, x) : q \in {t \in shorter : Len(t) = n - 1}, x \in S}

Prefixes(W) == {SubSeq(W, 1, n) : n \in 0..Len(W)}

----------------------------------------------------------------------------
(* Quotients and sort keys *)

\* a / b < c / d for non-zero b, d
FracLess(a, b, c, d) == (a * d) * (b * d) < (c * b) * (b * d)

\* key=lambda x: tuple(x[r] / caps[r] for r in crit_order), kept as
\* <<numerator, denominator>> pairs
ffd_key(x, cp, order) == [n \in 1..Len(order) |-> <<x[order[n]], cp[order[n]]>>]

\* key=lambda x: (x["CPU"], x["Red"], x["Memoria"])
first_fit_key(x) == << <<x.CPU, 1>>, <<x.Red, 1>>, <<x.Memoria, 1>> >>

\* Python's tuple comparison: the first differing component decides
RECURSIVE TupleLess(_, _)
TupleLess(k1, k2) ==
  IF k1 = <<>> \/ k2 = <<>> THEN FALSE
  ELSE IF FracLess(k1[1][1], k1[1][2], k2[1][1], k2[1][2]) THEN TRUE
  ELSE IF FracLess(k2[1][1], k2[1][2], k1[1][1], k1[1][2]) THEN FALSE
  ELSE TupleLess(Tail(k1), Tail(k2))

\* variant: a later element goes in front of the elements of equal key
RECURSIVE InsertDescTiesFirst(_, _, _)
InsertDescTiesFirst(sorted_, n, keys) ==
  IF sorted_ = <<>> THEN <<n>>
  ELSE IF ~TupleLess(keys[n], keys[Head(sorted_)])
       THEN <<n>> \o sorted_
       ELSE <<Head(sorted_)>> \o InsertDescTiesFirst(Tail(sorted_), n, keys)

\* sorted(..., reverse=True): descending, equal keys stay in input order.
\* keys[n] is the key of the n-th element; the result lists positions.
RECURSIVE InsertDesc(_, _, _)
InsertDesc(sorted_, n, keys) ==
  IF sorted_ = <<>> THEN <<n>>
  ELSE IF TupleLess(keys[Head(sorted_)], keys[n])
       THEN <<n>> \o sorted_
       ELSE <<Head(sorted_)>> \o InsertDesc(Tail(sorted_), n, keys)

RECURSIVE SortedUpTo(_, _)
SortedUpTo(keys, n) ==
  IF n = 0 THEN <<>> ELSE InsertDesc(SortedUpTo(keys, n - 1), n, keys)

sorted_reverse(keys) == SortedUpTo(keys, Len(keys))

\* the key function divides by caps[r] for every element of a non-empty list
KeyRaises(insts, cp, order) ==
  insts # <<>> /\ \E n \in 1..Len(order) : cp[order[n]] = 0

----------------------------------------------------------------------------
(* Feasibility and placement *)

\* variant: the anti-affinity test is missing
can_host_capacity_only(server, inst, cp) ==
  \A k \in Keys : server[k] + inst[k] <= cp[k]

can_host(server, inst, cp) ==
  IF inst.Servicio \in server.services THEN FALSE
  ELSE \A k \in Keys : server[k] + inst[k] <= cp[k]

\* variant: the replica is not appended to the server's instances
add_to_server_no_append(s, inst, n) ==
  [name |-> s.name,
   CPU |-> s.CPU + inst.CPU, Memoria |-> s.Memoria + inst.Memoria,
   Red |-> s.Red + inst.Red, Disco_IO |-> s.Disco_IO + inst.Disco_IO,
   Almacenamiento |-> s.Almacenamiento + inst.Almacenamiento,
   services |-> s.services \cup {inst.Servicio},
   instances |-> s.instances]

\* the body of "if can_host(s, inst, caps):", n is the position of inst
add_to_server(s, inst, n) ==
  [name |-> s.name,
   CPU |-> s.CPU + inst.CPU, Memoria |-> s.Memoria + inst.Memoria,
   Red |-> s.Red + inst.Red, Disco_IO |-> s.Disco_IO + inst.Disco_IO,
   Almacenamiento |-> s.Almacenamiento + inst.Almacenamiento,
   services |-> s.services \cup {inst.Servicio},
   instances |-> Append(s.instances, n)]

\* the dict appended in the else branch of the for loop
new_server(srvs, inst, n) ==
  [name |-> Len(srvs) + 1,
   CPU |-> inst.CPU, Memoria |-> inst.Memoria, Red |-> inst.Red,
   Disco_IO |-> inst.Disco_IO, Almacenamiento |-> inst.Almacenamiento,
   services |-> {inst.Servicio},
   instances |-> <<n>>]

Hosts(srvs, inst, cp) == {j \in 1..Len(srvs) : can_host(srvs[j], inst, cp)}

\* variant: the scan keeps going and the last server that admits wins
last_host(srvs, inst, cp) ==
  CHOOSE j \in Hosts(srvs, inst, cp) : \A h \in Hosts(srvs, inst, cp) : j >= h

\* "for s in servers: if can_host(...): ... break": the first server that admits
first_host(srvs, inst, cp) ==
  CHOOSE j \in Hosts(srvs, inst, cp) : \A h \in Hosts(srvs, inst, cp) : j <= h

\* one iteration of "for inst in instances_sorted"
place(srvs, insts, n, cp) ==
  IF Hosts(srvs, insts[n], cp) # {}
  THEN LET j == first_host(srvs, insts[n], cp)
       IN  [srvs EXCEPT ![j] = add_to_server(srvs[j], insts[n], n)]
  ELSE Append(srvs, new_server(srvs, insts[n], n))

RECURSIVE place_all(_, _, _, _)
place_all(srvs, insts, order, cp) ==
  IF order = <<>> THEN srvs
  ELSE place_all(place(srvs, insts, Head(order), cp), insts, Tail(order), cp)

\* ffd as one call (used by best_plan); caps are non-zero where it is used
ffd(insts, cp, order) ==
  place_all(<<>>, insts,
            sorted_reverse([n \in 1..Len(insts) |-> ffd_key(insts[n], cp, order)]),
            cp)

----------------------------------------------------------------------------
(* best_plan: criticality order, sampled orderings, comparator *)

RECURSIVE SumOver(_, _, _)
SumOver(insts, k, n) == IF n = 0 THEN 0 ELSE insts[n][k] + SumOver(insts, k, n - 1)

\* demand = {k: sum(inst[k] for inst in instances) for k in RESOURCE_KEYS}
demand(insts) == [k \in Keys |-> SumOver(insts, k, Len(insts))]

\* criticity = {k: demand[k] / caps[k] ...} divides for every key
CriticityRaises(cp) == \E k \in Keys : cp[k] = 0

\* crit_order = sorted(criticity, key=criticity.get, reverse=True)
canonical_order(insts, cp) ==
  LET d    == demand(insts)
      keys == [n \in 1..Len(RESOURCE_KEYS) |->
                 << <<d[RESOURCE_KEYS[n]], cp[RESOURCE_KEYS[n]]>> >>]
      idx  == sorted_reverse(keys)
  IN  [n \in 1..Len(idx) |-> RESOURCE_KEYS[idx[n]]]

Without(s, n) == SubSeq(s, 1, n - 1) \o SubSeq(s, n + 1, Len(s))

RECURSIVE Concat(_)
Concat(ss) == IF ss = <<>> THEN <<>> ELSE Head(ss) \o Concat(Tail(ss))

\* list(itertools.permutations(RESOURCE_KEYS)), in itertools' order
RECURSIVE permutations(_)
permutations(s) ==
  IF s = <<>> THEN << <<>> >>
  ELSE Concat([n \in 1..Len(s) |->
         LET rest == permutations(Without(s, n))
         IN  [m \in 1..Len(rest) |-> <<s[n]>> \o rest[m]]])

AllOrders == permutations(RESOURCE_KEYS)

RECURSIVE Factorial(_)
Factorial(n) == IF n = 0 THEN 1 ELSE n * Factorial(n - 1)

SampleBudget == 100

\* k=min(100, math.factorial(len(RESOURCE_KEYS)))
SampleSize ==
  IF SampleBudget < Factorial(Len(RESOURCE_KEYS)) THEN SampleBudget
  ELSE Factorial(Len(RESOURCE_KEYS))

IndexOf(p, x) == CHOOSE n \in 1..Len(p) : p[n] = x

Reverse(s) == [n \in 1..Len(s) |-> s[Len(s) + 1 - n]]

\* random.sample returns SampleSize distinct permutations in some order; any
\* such list is an outcome.  The model draws from this family of outcomes:
\* the permutations that do not list the three dimensions of t in t's
\* relative order, in listing order or reversed.
LeftOutTriples ==
  { <<"CPU", "Memoria", "Red">>,
    <<"Memoria", "Red", "CPU">>,
    <<"Almacenamiento", "Disco_IO", "Red">> }

LeavesOut(t, p) ==
  IndexOf(p, t[1]) < IndexOf(p, t[2]) /\ IndexOf(p, t[2]) < IndexOf(p, t[3])

SampleChoices ==
  LET kept(t) == SelectSeq(AllOrders, LAMBDA p : ~LeavesOut(t, p))
      cut(s)  == SubSeq(s, 1, SampleSize)
  IN  {cut(kept(t)) : t \in LeftOutTriples}
        \cup {cut(Reverse(kept(t))) : t \in LeftOutTriples}

None == <<>>
Some(plan) == <<plan>>

\* sum(caps[k] - sum(s[k] for s in plan) for k in RESOURCE_KEYS)
RECURSIVE UsageSum(_, _, _)
UsageSum(plan, k, n) == IF n = 0 THEN 0 ELSE plan[n][k] + UsageSum(plan, k, n - 1)

RECURSIVE spare_from(_, _, _)
spare_from(plan, cp, n) ==
  IF n = 0 THEN 0
  ELSE (cp[RESOURCE_KEYS[n]] - UsageSum(plan, RESOURCE_KEYS[n], Len(plan)))
         + spare_from(plan, cp, n - 1)

spare(plan, cp) == spare_from(plan, cp, Len(RESOURCE_KEYS))

\* variant: a plan with as many servers replaces best
better_or_equal(plan, b, cp) ==
  \/ b = None
  \/ b # None /\ Len(plan) <= Len(b[1])

\* variant: the comparison of server counts is inverted
better_more_servers(plan, b, cp) ==
  \/ b = None
  \/ b # None /\ Len(plan) > Len(b[1])
  \/ b # None /\ Len(plan) = Len(b[1]) /\ spare(plan, cp) < spare(b[1], cp)

\* the condition under which the loop body assigns best = plan
better(plan, b, cp) ==
  \/ b = None
  \/ b # None /\ Len(plan) < Len(b[1])
  \/ b # None /\ Len(plan) = Len(b[1]) /\ spare(plan, cp) < spare(b[1], cp)

\* one iteration of the for loop over the candidate orderings
trial(b, insts, cp, order) ==
  LET plan == ffd(insts, cp, order)
  IN  IF better(plan, b, cp) THEN Some(plan) ELSE b

----------------------------------------------------------------------------
(* State machine *)

Init ==
  /\ mode \in {"first_fit_decreasing", "ffd", "best_plan"}
  /\ caps \in CapsPool
  /\ instances \in IF mode = "best_plan"
                   THEN UNION {Prefixes(W) : W \in Workloads}
                   ELSE SeqsUpTo(ReplicaPool, MaxReplicas)
  /\ crit_order \in IF mode = "ffd" THEN OrderPool ELSE {<<>>}
  /\ instances_sorted = <<>>
  /\ pos = 1
  /\ servers = <<>>
  /\ pc = "start"
  /\ err = "none"
  /\ refed = FALSE
  /\ prev_sizes = <<>>
  /\ orders = <<>>
  /\ i = 1
  /\ best = None
  /\ appended = FALSE
  /\ prev_len = 0

PackVars == <<instances_sorted, pos, servers>>
OptVars == <<orders, i, best, appended, prev_len>>
Inputs == <<mode, instances, caps>>

\* script.py: instances_sorted = sorted(...); servers = []
FirstFitSort ==
  /\ pc = "start" /\ mode = "first_fit_decreasing"
  /\ instances_sorted' =
       sorted_reverse([n \in 1..Len(instances) |-> first_fit_key(instances[n])])
  /\ servers' = <<>>
  /\ pos' = 1
  /\ pc' = "loop"
  /\ UNCHANGED <<Inputs, crit_order, err, refed, prev_sizes, OptVars>>

\* script1.py: instances_sorted = sorted(...); servers = []
FfdSort ==
  /\ pc = "start" /\ mode = "ffd"
  /\ ~KeyRaises(instances, caps, crit_order)
  /\ instances_sorted' =
       sorted_reverse([n \in 1..Len(instances) |->
                         ffd_key(instances[n], caps, crit_order)])
  /\ servers' = <<>>
  /\ pos' = 1
  /\ pc' = "loop"
  /\ UNCHANGED <<Inputs, crit_order, err, refed, prev_sizes, OptVars>>

\* x[r] / caps[r] with caps[r] == 0
FfdSortRaises ==
  /\ pc = "start" /\ mode = "ffd"
  /\ KeyRaises(instances, caps, crit_order)
  /\ err' = "ZeroDivisionError"
  /\ pc' = "error"
  /\ UNCHANGED <<Inputs, crit_order, PackVars, refed, prev_sizes, OptVars>>

\* loop body, the branch that found a server
PlaceOnExisting ==
  /\ pc = "loop" /\ pos <= Len(instances_sorted)
  /\ Hosts(servers, instances[instances_sorted[pos]], caps) # {}
  /\ servers' = place(servers, instances, instances_sorted[pos], caps)
  /\ pos' = pos + 1
  /\ UNCHANGED <<Inputs, crit_order, instances_sorted, pc, err, refed,
                 prev_sizes, OptVars>>

\* loop body, the branch that opens a server
OpenServer ==
  /\ pc = "loop" /\ pos <= Len(instances_sorted)
  /\ Hosts(servers, instances[instances_sorted[pos]], caps) = {}
  /\ servers' = place(servers, instances, instances_sorted[pos], caps)
  /\ pos' = pos + 1
  /\ UNCHANGED <<Inputs, crit_order, instances_sorted, pc, err, refed,
                 prev_sizes, OptVars>>

\* return servers
PackReturn ==
  /\ pc = "loop" /\ pos > Len(instances_sorted)
  /\ pc' = "done"
  /\ UNCHANGED <<Inputs, crit_order, PackVars, err, refed, prev_sizes, OptVars>>

\* the caller lists the plan's replicas server by server and calls ffd again
\* with the same caps and ordering
Refeed ==
  /\ pc = "done" /\ mode = "ffd" /\ ~refed
  /\ instances' = Concat([j \in 1..Len(servers) |->
                    [m \in 1..Len(servers[j].instances) |->
                       instances[servers[j].instances[m]]]])
  /\ prev_sizes' = [j \in 1..Len(servers) |-> Len(servers[j].instances)]
  /\ refed' = TRUE
  /\ instances_sorted' = <<>>
  /\ servers' = <<>>
  /\ pos' = 1
  /\ pc' = "start"
  /\ UNCHANGED <<mode, caps, crit_order, err, OptVars>>

\* best_plan up to the head of the for loop
BestPlanStart ==
  /\ pc = "start" /\ mode = "best_plan"
  /\ ~CriticityRaises(caps)
  /\ \E sample \in (IF appended THEN {Tail(orders)} ELSE SampleChoices) :
       orders' = <<canonical_order(instances, caps)>> \o sample
  /\ crit_order' = canonical_order(instances, caps)
  /\ best' = None
  /\ i' = 1
  /\ pc' = "trial"
  /\ UNCHANGED <<Inputs, PackVars, err, refed, prev_sizes, appended, prev_len>>

\* demand[k] / caps[k] with caps[k] == 0
BestPlanRaises ==
  /\ pc = "start" /\ mode = "best_plan"
  /\ CriticityRaises(caps)
  /\ err' = "ZeroDivisionError"
  /\ pc' = "error"
  /\ UNCHANGED <<Inputs, crit_order, PackVars, refed, prev_sizes, OptVars>>

\* one candidate ordering: plan = ffd(...), then the comparison with best
Trial ==
  /\ pc = "trial" /\ i <= Len(orders)
  /\ best' = trial(best, instances, caps, orders[i])
  /\ i' = i + 1
  /\ UNCHANGED <<Inputs, crit_order, PackVars, pc, err, refed, prev_sizes,
                 orders, appended, prev_len>>

\* return best
BestPlanReturn ==
  /\ pc = "trial" /\ i > Len(orders)
  /\ pc' = "done"
  /\ UNCHANGED <<Inputs, crit_order, PackVars, err, refed, prev_sizes, OptVars>>

\* the caller appends one replica to the list and calls best_plan again with
\* the same capacity and, the generator being seeded alike, the same sample
AppendReplica ==
  /\ pc = "done" /\ mode = "best_plan" /\ ~appended
  /\ \E r \in AppendPool : instances' = Append(instances, r)
  /\ prev_len' = Len(best[1])
  /\ appended' = TRUE
  /\ best' = None
  /\ i' = 1
  /\ pc' = "start"
  /\ UNCHANGED <<mode, caps, crit_order, PackVars, err, refed, prev_sizes, orders>>

Next ==
  \/ FirstFitSort
  \/ FfdSort
  \/ FfdSortRaises
  \/ PlaceOnExisting
  \/ OpenServer
  \/ PackReturn
  \/ Refeed
  \/ BestPlanStart
  \/ BestPlanRaises
  \/ Trial
  \/ BestPlanReturn
  \/ AppendReplica

Spec == Init /\ [][Next]_vars

----------------------------------------------------------------------------
(* Properties *)

AllPositive(cp) == \A k \in Keys : cp[k] > 0

\* the plans in existence: the packer's server list and the optimizer's best
CurrentPlans == {servers} \cup (IF best = None THEN {} ELSE {best[1]})

\* the plans handed back to a caller
ReturnedPlans ==
  (IF pc = "done" /\ mode # "best_plan" THEN {servers} ELSE {})
    \cup (IF best = None THEN {} ELSE {best[1]})

Unplaceable == \E n \in 1..Len(instances) : \E k \in Keys : instances[n][k] > caps[k]

DegenerateCapacity ==
  \E k \in Keys : caps[k] <= 0 /\ \E n \in 1..Len(instances) : instances[n][k] > 0

\* C1: with a capacity vector of positive entries, every server of the
\* packer's list at every step, and of the optimizer's best plan, uses at most
\* the capacity in each of the five dimensions.
C1_CapacityInvariant ==
  AllPositive(caps) =>
    \A p \in CurrentPlans : \A j \in 1..Len(p) : \A k \in Keys : p[j][k] <= caps[k]

\* C2: no server holds two replicas of one service, and its services set is
\* exactly the set of service names of its replicas, one name per replica.
C2_AntiAffinity ==
  \A p \in CurrentPlans : \A j \in 1..Len(p) :
    LET s == p[j]
    IN  /\ \A m1, m2 \in 1..Len(s.instances) :
             m1 # m2 => instances[s.instances[m1]].Servicio
                          # instances[s.instances[m2]].Servicio
        /\ s.services = {instances[n].Servicio : n \in Range(s.instances)}
        /\ Cardinality(s.services) = Len(s.instances)

\* a finished packer run in which anti-affinity kept a service's replicas on
\* different servers while another server took two replicas
C2_Witness ==
  /\ pc = "done" /\ mode # "best_plan"
  /\ \E j \in 1..Len(servers) : Len(servers[j].instances) >= 2
  /\ \E j1, j2 \in 1..Len(servers) :
       j1 # j2 /\ servers[j1].services \cap servers[j2].services # {}

\* C3: when some replica exceeds the capacity in one dimension, the run ends
\* in an error before any placement: no server is ever opened, no plan exists.
C3_UnplaceableRejected ==
  (AllPositive(caps) /\ Unplaceable) =>
    (servers = <<>> /\ best = None /\ pc # "done")

\* C4: when the capacity has a zero or negative entry in a dimension some
\* replica demands, best_plan rejects the input before any packer run: no
\* plan is built and none is returned.
C4_DegenerateRejected ==
  (mode = "best_plan" /\ DegenerateCapacity) => (best = None /\ pc # "done")

\* the candidate plans of the optimizer, in evaluation order
Candidates == [j \in 1..Len(orders) |-> ffd(instances, caps, orders[j])]

\* total spare capacity of a plan: the sum over the dimensions of
\* capacity times server count minus the usage of the plan's servers
TotalSpare(plan) ==
  LET part[n \in 0..Len(RESOURCE_KEYS)] ==
        IF n = 0 THEN 0
        ELSE caps[RESOURCE_KEYS[n]] * Len(plan)
               - UsageSum(plan, RESOURCE_KEYS[n], Len(plan)) + part[n - 1]
  IN  part[Len(RESOURCE_KEYS)]

\* plan p ranks strictly before plan q: fewer servers, or as many and less spare
RanksBefore(p, q) ==
  \/ Len(p) < Len(q)
  \/ Len(p) = Len(q) /\ TotalSpare(p) < TotalSpare(q)

\* C5: the plan best_plan returns is a candidate that no candidate ranks
\* before (fewest servers, then least total spare capacity), and it is the
\* first such candidate in evaluation order.
C5_BestSelection ==
  (pc = "done" /\ mode = "best_plan") =>
    /\ best # None
    /\ \E j \in 1..Len(orders) :
         /\ best[1] = Candidates[j]
         /\ \A h \in 1..Len(orders) : ~RanksBefore(Candidates[h], Candidates[j])
         /\ \A h \in 1..(j - 1) : RanksBefore(Candidates[j], Candidates[h])

\* a finished search whose candidates differ in server count and where two
\* different candidates both have the fewest servers
C5_Witness ==
  /\ pc = "done" /\ mode = "best_plan" /\ best # None
  /\ \E h \in 1..Len(orders) : Len(Candidates[h]) > Len(best[1])
  /\ \E h \in 1..Len(orders) :
       Len(Candidates[h]) = Len(best[1]) /\ Candidates[h] # best[1]

\* C6: for a list L and a placeable replica r, the plan best_plan returns for
\* L with r appended (same capacity, same sampled orderings) has at least as
\* many servers as the plan it returned for L.
C6_Monotone ==
  (pc = "done" /\ mode = "best_plan" /\ appended
     /\ AllPositive(caps) /\ ~Unplaceable) =>
    Len(best[1]) >= prev_len

\* positions prev_sizes[1] + ... + prev_sizes[j-1] + 1 .. prev_sizes[1] + ... + prev_sizes[j]
Block(j) ==
  LET upto[n \in 0..Len(prev_sizes)] ==
        IF n = 0 THEN 0 ELSE prev_sizes[n] + upto[n - 1]
  IN  (upto[j - 1] + 1)..upto[j]

\* C7: packing again the replicas of a plan, listed server by server, with the
\* same capacity and ordering gives the same groups in the same server order.
C7_Idempotent ==
  (pc = "done" /\ refed) =>
    /\ Len(servers) = Len(prev_sizes)
    /\ \A j \in 1..Len(servers) : Range(servers[j].instances) = Block(j)

\* a second run that had to reorder the list it was fed and built two servers
C7_Witness ==
  /\ pc = "done" /\ refed
  /\ Len(servers) >= 2
  /\ \E n \in 1..Len(instances_sorted) : instances_sorted[n] # n

NotLessCritical(k1, k2) ==
  ~FracLess(demand(instances)[k1], caps[k1], demand(instances)[k2], caps[k2])

KeyOf(n) ==
  IF mode = "ffd" THEN ffd_key(instances[n], caps, crit_order)
  ELSE first_fit_key(instances[n])

\* instances_sorted lists every input position once, keys never increase
\* along it, and replicas of equal key keep their input order
SortedDescStable(sorted_) ==
  /\ Len(sorted_) = Len(instances)
  /\ Range(sorted_) = 1..Len(instances)
  /\ \A a, b \in 1..Len(sorted_) :
       a < b =>
         /\ ~TupleLess(KeyOf(sorted_[a]), KeyOf(sorted_[b]))
         /\ ~TupleLess(KeyOf(sorted_[b]), KeyOf(sorted_[a])) => sorted_[a] < sorted_[b]

\* the usage and instances fields of the server inst (position n) was added to
Extended(s, t, n) ==
  /\ t.instances = Append(s.instances, n)
  /\ t.services = s.services \cup {instances[n].Servicio}
  /\ \A k \in Keys : t[k] = s[k] + instances[n][k]

\* a step of the placement loop puts the next replica of instances_sorted on
\* the lowest-numbered server that admits it and leaves the others as they
\* are, or, when no server admits it, appends a server holding just it
FirstFitStep ==
  LET n == instances_sorted[pos]
      H == {j \in 1..Len(servers) : can_host(servers[j], instances[n], caps)}
  IN  /\ instances_sorted' = instances_sorted
      /\ IF H # {}
         THEN /\ Len(servers') = Len(servers)
              /\ \E j \in H :
                   /\ \A h \in 1..(j - 1) : h \notin H
                   /\ Extended(servers[j], servers'[j], n)
                   /\ \A h \in 1..Len(servers) : h # j => servers'[h] = servers[h]
         ELSE /\ Len(servers') = Len(servers) + 1
              /\ SubSeq(servers', 1, Len(servers)) = servers
              /\ servers'[Len(servers')].instances = <<n>>
              /\ servers'[Len(servers')].services = {instances[n].Servicio}
              /\ \A k \in Keys : servers'[Len(servers')][k] = instances[n][k]

\* C9: the packer processes the replicas in descending key order, equal keys
\* in input order; each goes to the first server in creation order that
\* can_host admits, a server is appended only when none admits it, and no
\* server is removed, reordered or reduced.
C9_FirstFit ==
  [][ /\ (pc' = "loop" => SortedDescStable(instances_sorted'))
      /\ (pc = "loop" /\ pos' # pos => FirstFitStep)
      /\ (pc = "loop" /\ pos' = pos => servers' = servers) ]_vars

\* a run in which a replica skipped a server that rejected it and joined a
\* later one, after the sort had reordered the list
C9_Witness ==
  /\ pc = "loop" /\ pos > 1 /\ Len(servers) >= 2
  /\ \E n \in 1..Len(instances_sorted) : instances_sorted[n] # n
  /\ \E j \in 2..Len(servers) :
       /\ Len(servers[j].instances) >= 2
       /\ servers[j].instances[Len(servers[j].instances)] = instances_sorted[pos - 1]

RECURSIVE SumDemand(_, _)
SumDemand(idx, k) ==
  IF idx = <<>> THEN 0 ELSE instances[Head(idx)][k] + SumDemand(Tail(idx), k)

====
